---- MODULE Spec2Model ----
(***************************************************************************)
(* State-machine model of the session layer of the MCP serialport service. *)
(*                                                                         *)
(* serial.js keeps one module-wide session (activePort, activePortName,    *)
(* rxBuffer).  Every request is an async function: the code up to its      *)
(* first await runs atomically when the request is dispatched, and each    *)
(* continuation runs atomically when the awaited callback is delivered.    *)
(* Requests are not queued: a request may be dispatched while another one  *)
(* is suspended.  An exception thrown inside a timer callback or an event  *)
(* listener is not caught by anything and terminates the process.          *)
(*                                                                         *)
(* stlink.js, openocd.js and jlink.js each keep one module-wide debug      *)
(* server slot (stUtilProc, openocdProc, gdbServerProc) and its gdbPort.   *)
(* startDebug and stopDebug are async functions of the same kind; the      *)
(* child processes deliver their output, exit and error events, and the    *)
(* kill timer of stopDebug its expiry, as separate tasks.  Spec is the     *)
(* serial session, SpecSequential the serial session of a client that      *)
(* awaits each result before its next call, SpecProbe the three debug      *)
(* servers with the debug channel of stlink.js, SpecPorts the debug        *)
(* servers started with and without a port argument, SpecShutdown the      *)
(* serial session with the SIGINT handler of index.js, and SpecTools the   *)
(* one-shot tool calls (flash, reset, register read, compile, git), each   *)
(* of which runs to completion on the environment it is given.             *)
(***************************************************************************)
EXTENDS Integers, Sequences, FiniteSets, TLC

\* ------------------------------------------------------------------ bounds
MaxReqs == 2        \* requests that can be suspended at the same time
MaxPorts == 2       \* SerialPort objects that exist at the same time
MaxBytes == 2       \* bytes delivered by the channels during one run
MaxChildren == 2    \* ChildProcess objects that exist at the same time
MaxChunks == 1      \* chunks a debug-channel connection receives

\* ------------------------------------------------------------ program data
DefaultMaxBytes == 65536       \* read: maxBytes = 65536
DefaultTimeoutMs == 0          \* read: timeoutMs = 0
TestTimeoutMs == 2000          \* test/read-com24-raw.js: timeoutMs 2000

Reqs == 1..MaxReqs
Ports == 1..MaxPorts
NoPort == 0                    \* activePort = null
Names == {"", "COM3", "COM4"}  \* "" is the invalid port name
MaxBytesArgs == {1, DefaultMaxBytes}
TimeoutArgs == {DefaultTimeoutMs, TestTimeoutMs}
ChunkLens == {1, 2}            \* lengths of the chunk of one data event
OpenErrors == {"AccessDenied", "PortNotFound", "OpenError"}

Backends == {"stlink", "openocd", "jlink"}
Children == 1..MaxChildren
NoChild == 0                   \* stUtilProc / openocdProc / gdbServerProc = null
\* the value of gdbPort at module load, and the default of the port argument
DefaultGdbPort == [stlink |-> 4242, openocd |-> 3333, jlink |-> 2331]
PortArgs == {0}                \* the port argument: 0 is omitted or falsy
OtherGdbPort == 9000           \* a port argument that is no backend's default
\* the port arguments of the startDebug calls made for each backend
StartPorts == [stlink |-> {0, OtherGdbPort}, openocd |-> {0, OtherGdbPort},
               jlink |-> {0}]

VARIABLES
  activePort,      \* serial.js activePort: a port object or NoPort
  activePortName,  \* serial.js activePortName
  rxBuffer,        \* serial.js rxBuffer: sequence of bytes
  portState,       \* per SerialPort object: unused/opening/open/closing
  portPath,        \* per SerialPort object: its path
  portHandlers,    \* per SerialPort object: the handlers of openPort are on
  listeners,       \* per SerialPort object: onData listeners of reads, in order
  pc,              \* per request slot: where the request is suspended
  reqPort,         \* per request slot: the port object it opens, writes or closes
  timer,           \* per request slot: the timeout timer of read is armed
  last,            \* the request that completed last, and its outcome
  crashed,         \* an uncaught exception terminated the process
  nextByte,        \* value of the next byte a channel delivers
  arrived,         \* history: bytes appended to rxBuffer since the last open
  consumed,        \* history: bytes returned by reads since the last open
  proc,            \* per backend: stUtilProc / openocdProc / gdbServerProc
  gdbPort,         \* per backend: gdbPort
  child,           \* per ChildProcess object: its backend and state
  dpc,             \* per request slot: where the debug request is suspended
  dreq,            \* per request slot: its backend, child process and port
  dlast,           \* the debug request that completed last, and its outcome
  shutdown,        \* the SIGINT handler: where it is, and its closePort slot
  tlast            \* the one-shot tool call that completed last

sessionVars == <<activePort, activePortName, rxBuffer>>
portVars == <<portState, portPath, portHandlers, listeners>>
reqVars == <<pc, reqPort, timer, last>>
histVars == <<nextByte, arrived, consumed>>
serialVars == <<activePort, activePortName, rxBuffer, portState, portPath,
                portHandlers, listeners, pc, reqPort, timer, last, crashed,
                nextByte, arrived, consumed>>
probeVars == <<proc, gdbPort, child, dpc, dreq, dlast>>
vars == <<serialVars, probeVars, shutdown, tlast>>

\* ----------------------------------------------------------------- helpers
Min(a, b) == IF a < b THEN a ELSE b

\* outcome of a request: kind is "ok" or the error it threw
Outcome(o, k, d, mb, t) ==
  [op |-> o, kind |-> k, data |-> d, maxBytes |-> mb, timeoutMs |-> t]
NoOutcome == Outcome("none", "none", <<>>, 0, 0)

\* s without its first element equal to e
RECURSIVE RemoveFirst(_, _)
RemoveFirst(s, e) ==
  IF s = <<>> THEN <<>>
  ELSE IF Head(s) = e THEN Tail(s) ELSE <<Head(s)>> \o RemoveFirst(Tail(s), e)

\* the listeners of s with the promise of request r marked settled
Settle(s, r) ==
  [i \in 1..Len(s) |-> IF s[i].req = r THEN [s[i] EXCEPT !.live = FALSE]
                                       ELSE s[i]]

\* port.isOpen of the serialport stream: open and not closing
isOpen(p) == portState[p] = "open"

\* the check of openPort with the test of isOpen inverted
AlreadyOpen_Inverted == activePort # NoPort /\ ~isOpen(activePort)

\* openPort: if (activePort && activePort.isOpen) throw ...
AlreadyOpen == activePort # NoPort /\ isOpen(activePort)

\* normalizeComName: throws unless name is a non-empty string
normalizeComName(name) == name # ""

\* ensureOpen without its test of isOpen
ensureOpen_NoIsOpen == activePort # NoPort

\* ensureOpen: throws if (!activePort || !activePort.isOpen)
ensureOpen == activePort # NoPort /\ isOpen(activePort)

\* the variant of readFromBuffer that takes the whole buffer
readFromBuffer_All(buf, mb) == buf

\* read: readFromBuffer returns the prefix it takes (<<>> stands for null)
readFromBuffer(buf, mb) == SubSeq(buf, 1, Min(Len(buf), mb))

\* read: what readFromBuffer leaves in rxBuffer
restOfBuffer(buf, mb) == SubSeq(buf, Min(Len(buf), mb) + 1, Len(buf))

\* the test of read with timeoutMs >= 0 in place of timeoutMs > 0
shouldWait_Zero(chunk, t) == chunk = <<>> /\ t >= 0

\* read: if (!chunk && timeoutMs > 0) suspend
shouldWait(chunk, t) == chunk = <<>> /\ t > 0

\* the data handler of openPort: rxBuffer = concat(rxBuffer, chunk)
appendChunk(buf, chunk) == buf \o chunk

\* closePort: if (activePort && activePort.isOpen) await close
mustClose == activePort # NoPort /\ isOpen(activePort)

\* new SerialPort(...): an object that does not exist yet
FreshPort == CHOOSE p \in Ports : portState[p] = "unused" /\
                \A q \in Ports : portState[q] = "unused" => p <= q

\* the operating system refuses to open a path that another object holds
PathBusy(p) == \E q \in Ports : q # p /\ portPath[q] = portPath[p] /\
                   portState[q] \in {"open", "closing"}

\* the variant of Dispose in which the object keeps its event handlers
Dispose_Handlers(p) ==
  /\ portState' = [portState EXCEPT ![p] = "unused"]
  /\ portPath' = [portPath EXCEPT ![p] = ""]
  /\ portHandlers' = [portHandlers EXCEPT ![p] = TRUE]

\* The channel of object p is closed, or failed to open: nothing refers to
\* the object any more and it emits no further event, so it ceases to exist.
Dispose(p) ==
  /\ portState' = [portState EXCEPT ![p] = "unused"]
  /\ portPath' = [portPath EXCEPT ![p] = ""]
  /\ portHandlers' = [portHandlers EXCEPT ![p] = FALSE]

\* the listeners left when object p ceases to exist
Disposed(ls, p) == [ls EXCEPT ![p] = <<>>]

\* the channels the suspended writes wait on when object p ceases to exist:
\* a write still waiting for its callback on p has lost its channel
Orphaned(rp, p) ==
  [r \in Reqs |-> IF pc[r] = "write_wait" /\ rp[r] = p THEN NoPort
                                                       ELSE rp[r]]

\* ------------------------------------------------------- argument parsing
\* A string argument is a sequence of characters; Missing is undefined or
\* null.  Numbers are the non-negative integers below 2^31, for which
\* v >>> 0 is v.
Chars == {"0", "1", "a", "x", "z", " "}
Missing == [type |-> "undefined"]
Str(s) == [type |-> "string", s |-> s]
Num(n) == [type |-> "number", n |-> n]
NaN == [nan |-> TRUE]
Number(n) == [nan |-> FALSE, n |-> n]

\* the value of a digit character in a radix, or none
DigitValue == [c \in Chars |->
                 CASE c = "0" -> 0 [] c = "1" -> 1 [] c = "a" -> 10
                   [] OTHER -> 16]

isDigit(c, radix) == DigitValue[c] < radix

RECURSIVE trimStart(_)
trimStart(s) ==
  IF s # <<>> /\ Head(s) = " " THEN trimStart(Tail(s)) ELSE s

RECURSIVE trimEnd(_)
trimEnd(s) ==
  IF s # <<>> /\ s[Len(s)] = " " THEN trimEnd(SubSeq(s, 1, Len(s) - 1)) ELSE s

\* value.trim()
trim(s) == trimEnd(trimStart(s))

startsWith0x(s) == Len(s) >= 2 /\ s[1] = "0" /\ s[2] = "x"

\* the longest prefix of s made of digits of the radix
RECURSIVE digitPrefix(_, _)
digitPrefix(s, radix) ==
  IF s # <<>> /\ isDigit(Head(s), radix)
    THEN <<Head(s)>> \o digitPrefix(Tail(s), radix)
    ELSE <<>>

\* the number written by a sequence of digits, most significant first
RECURSIVE digitsValue(_, _)
digitsValue(d, radix) ==
  IF d = <<>> THEN 0
  ELSE digitsValue(SubSeq(d, 1, Len(d) - 1), radix) * radix
         + DigitValue[d[Len(d)]]

\* parseInt(string, radix): leading white space is skipped, with radix 16 a
\* 0x prefix too, then the longest prefix of digits is the number and the
\* rest of the string is ignored; NaN when there is no digit
parseInt(s, radix) ==
  LET t == trimStart(s)
      u == IF radix = 16 /\ startsWith0x(t) THEN SubSeq(t, 3, Len(t)) ELSE t
      d == digitPrefix(u, radix)
  IN IF d = <<>> THEN NaN ELSE Number(digitsValue(d, radix))

\* v >>> 0, on the numbers of the model
toUint32(n) == n

Parsed(n) == [ok |-> TRUE, value |-> n]
Rejected == [ok |-> FALSE, value |-> 0]

\* Number.isFinite(v) of parseIntHexOrDec
isFinite(v) == ~v.nan

\* parseIntHexOrDec(value, name): a number as it is, a string by parseInt
\* with radix 16 when it starts with 0x after trim().toLowerCase(), else 10;
\* throws for another type and for NaN
parseIntHexOrDec(value) ==
  IF value.type = "number" THEN Parsed(toUint32(value.n))
  ELSE IF value.type # "string" THEN Rejected
  ELSE LET v == IF startsWith0x(trim(value.s)) THEN parseInt(value.s, 16)
                ELSE parseInt(value.s, 10)
       IN IF ~isFinite(v) THEN Rejected ELSE Parsed(toUint32(v.n))

\* the addr arguments of setBreakpoint, the addr and value arguments of
\* writeRegister: none, a hex string, a malformed one
DebugAddrs == {Missing, Str(<<"0", "x", "1">>), Str(<<"z">>)}

\* the addr, length and value arguments of the one-shot tools
ToolArgs == {Missing, Num(1), Str(<<"0", "x", "1">>), Str(<<"1", "1">>),
             Str(<<"1", "z">>), Str(<<" ", "1">>), Str(<<"z">>)}

\* -------------------------------------------------- debug server helpers
\* a ChildProcess object: state is none (no such object), failed (spawn
\* failed, its error event is to come), alive or exited; listening: the
\* onData, onError and onExit of startDebug are attached; signal: the last
\* signal sent to it; timer: the kill timer of stopDebug is armed; port: the
\* port argument of its command line
NoProcess == [backend |-> "", state |-> "none", listening |-> FALSE,
              signal |-> "none", timer |-> FALSE, port |-> 0]

Spawned(b, ok, port) ==
  [backend |-> b, state |-> IF ok THEN "alive" ELSE "failed",
   listening |-> TRUE, signal |-> "none", timer |-> FALSE, port |-> port]

\* op: the debug-channel operation the request runs; chunks: the number of
\* chunks its connection has received
NoRequest == [backend |-> "", child |-> NoChild, port |-> 0, op |-> "",
              chunks |-> 0]

\* text: the number of chunks in the text a debug-channel command returned
DebugOutcome(op, kind) == [op |-> op, kind |-> kind, text |-> 0]

DebugOutput(op, text) == [op |-> op, kind |-> "Output", text |-> text]

NoDebugOutcome == DebugOutcome("none", "none")

\* ------------------------------------------------------- one-shot tools
\* the environment of one external tool: override is its environment
\* variable (unset, the path of an accessible file, or a path where no file
\* is); found: its default name can be spawned from PATH (a bare name) or is
\* an accessible file of the working directory (a name ending in .exe);
\* probeExit and toolExit: the exit status of its probe run and of its run
Overrides == {"unset", "file", "nofile"}
ExitCodes == {0, 1}
ShellNotFound == 127           \* exit status of the shell: command not found

ToolEnvs == [override : Overrides, found : BOOLEAN, probeExit : ExitCodes,
             toolExit : ExitCodes]

\* the tools tried after the first one: no override, and they work when found
FallbackEnvs == {e \in ToolEnvs : e.override = "unset" /\ e.probeExit = 0 /\
                                  e.toolExit = 0}

\* default names of the tools, in the order in which stlink.js tries them
FlashTools == <<"st-flash", "ST-LINK_CLI.exe", "STM32_Programmer_CLI.exe">>
ReadTools == <<"st-flash", "STM32_Programmer_CLI.exe">>
OpenOcdTools == <<"openocd">>
ToolNames == {"st-flash", "ST-LINK_CLI.exe", "STM32_Programmer_CLI.exe",
              "openocd"}
ExeNames == {"ST-LINK_CLI.exe", "STM32_Programmer_CLI.exe"}

\* the environments of a sequence of tools
Chains(tools) ==
  {c \in [1..Len(tools) -> ToolEnvs] :
     \A i \in 2..Len(tools) : c[i] \in FallbackEnvs}

LengthArgs == {Missing, Str(<<"1">>), Str(<<"z">>)}

\* the outcome of a call: kind is Result or the class of the error thrown;
\* ok is the ok field of the result (absent: the result has none); runs: the
\* external processes that ran, in order; exit: the status of the last one
Out(kind, ok, runs, exit) ==
  [kind |-> kind, ok |-> ok, runs |-> runs, exit |-> exit]

Thrown(kind, runs, exit) == Out(kind, "thrown", runs, exit)

NoEnv == [override |-> "unset", found |-> FALSE, probeExit |-> 0,
          toolExit |-> 0]

\* the dump file of a readRegister call: whether the tool wrote it, whether
\* readFile can read it and whether unlink can remove it
NoDump == [written |-> FALSE, readable |-> FALSE, removable |-> FALSE]

Dumps == {d \in [written : BOOLEAN, readable : BOOLEAN, removable : BOOLEAN] :
            d.written \/ d = NoDump}

\* dump: the dump file of the call; tmp: that file exists when the call has
\* returned or thrown
ToolCall(op, backend, arg, env, out) ==
  [op |-> op, backend |-> backend, arg |-> arg, env |-> env, out |-> out,
   dump |-> NoDump, tmp |-> FALSE]

NoToolCall == ToolCall("none", "", Missing, NoEnv, Out("none", "absent", <<>>, 0))

\* the SIGINT handler of index.js: none has run, some await their closePort
\* in the slots, or process.exit(0) was called
NoShutdown == [state |-> "none", slots |-> {}]

Closing(r) == [state |-> "closing", slots |-> shutdown.slots \cup {r}]

Exited == [state |-> "exited", slots |-> {}]

\* the variant of the handler without its catch: it exits only when closePort
\* returned
sigintDone_NoCatch(r, ok) ==
  IF r \in shutdown.slots /\ ok THEN Exited ELSE shutdown

\* the SIGINT handler after its await: closePort of slot r returned or threw,
\* then process.exit(0)
sigintDone(r, ok) == IF r \in shutdown.slots THEN Exited ELSE shutdown

InitProbe ==
  /\ proc = [b \in Backends |-> NoChild]
  /\ gdbPort = [b \in Backends |-> DefaultGdbPort[b]]
  /\ child = [c \in Children |-> NoProcess]
  /\ dpc = [r \in Reqs |-> "idle"]
  /\ dreq = [r \in Reqs |-> NoRequest]
  /\ dlast = NoDebugOutcome

\* a request is served in the lowest free slot (the slots are interchangeable)
FreeSlot(r) == pc[r] = "idle" /\ \A q \in Reqs : q < r => pc[q] # "idle"

Init ==
  /\ activePort = NoPort
  /\ activePortName = ""
  /\ rxBuffer = <<>>
  /\ portState = [p \in Ports |-> "unused"]
  /\ portPath = [p \in Ports |-> ""]
  /\ portHandlers = [p \in Ports |-> FALSE]
  /\ listeners = [p \in Ports |-> <<>>]
  /\ pc = [r \in Reqs |-> "idle"]
  /\ reqPort = [r \in Reqs |-> NoPort]
  /\ timer = [r \in Reqs |-> FALSE]
  /\ last = NoOutcome
  /\ crashed = FALSE
  /\ nextByte = 1
  /\ arrived = <<>>
  /\ consumed = <<>>
  /\ InitProbe
  /\ shutdown = NoShutdown
  /\ tlast = NoToolCall

\* the suspended request of slot r settles and its slot is free again
Settled(r) ==
  /\ pc' = [pc EXCEPT ![r] = "idle"]
  /\ reqPort' = [reqPort EXCEPT ![r] = NoPort]

\* ---------------------------------------------------------------- openPort
\* openPort up to its await: the AlreadyOpen check, normalizeComName,
\* new SerialPort and port.open
CallOpenPort(r, name) ==
  /\ ~crashed /\ FreeSlot(r)
  /\ IF AlreadyOpen
       THEN /\ last' = Outcome("openPort", "AlreadyOpen", <<>>, 0, 0)
            /\ UNCHANGED <<portState, portPath, pc, reqPort>>
       ELSE IF ~normalizeComName(name)
         THEN /\ last' = Outcome("openPort", "InvalidName", <<>>, 0, 0)
              /\ UNCHANGED <<portState, portPath, pc, reqPort>>
         ELSE /\ \E p \in Ports : portState[p] = "unused"
              /\ portState' = [portState EXCEPT ![FreshPort] = "opening"]
              /\ portPath' = [portPath EXCEPT ![FreshPort] = name]
              /\ reqPort' = [reqPort EXCEPT ![r] = FreshPort]
              /\ pc' = [pc EXCEPT ![r] = "open_wait"]
              /\ UNCHANGED last
  /\ UNCHANGED <<sessionVars, portHandlers, listeners, timer, crashed, histVars>>
  /\ UNCHANGED <<probeVars, shutdown, tlast>>

\* the variant of openBuffer that keeps what the buffer holds
openBuffer_Keep(buf) == buf

\* openPort: rxBuffer = Buffer.alloc(0), whatever the buffer held
openBuffer(buf) == <<>>

\* port.open succeeded: the rest of openPort runs
OpenDone(r) ==
  /\ ~crashed /\ pc[r] = "open_wait"
  /\ ~PathBusy(reqPort[r])
  /\ portState' = [portState EXCEPT ![reqPort[r]] = "open"]
  /\ rxBuffer' = openBuffer(rxBuffer)
  /\ portHandlers' = [portHandlers EXCEPT ![reqPort[r]] = TRUE]
  /\ activePort' = reqPort[r]
  /\ activePortName' = portPath[reqPort[r]]
  /\ arrived' = <<>>
  /\ consumed' = <<>>
  /\ Settled(r)
  /\ last' = Outcome("openPort", "ok", <<>>, 0, 0)
  /\ UNCHANGED <<portPath, listeners, timer, crashed, nextByte>>
  /\ UNCHANGED <<probeVars, shutdown, tlast>>

\* port.open failed: the catch handler classifies the error and rethrows
OpenFail(r, e) ==
  /\ ~crashed /\ pc[r] = "open_wait"
  /\ Dispose(reqPort[r])
  /\ Settled(r)
  /\ last' = Outcome("openPort", e, <<>>, 0, 0)
  /\ UNCHANGED <<sessionVars, listeners, timer, crashed, histVars>>
  /\ UNCHANGED <<probeVars, shutdown, tlast>>

\* ------------------------------------------------------------------- write
\* write up to its await: ensureOpen, then activePort.write(bufferToSend, cb)
CallWrite(r) ==
  /\ ~crashed /\ FreeSlot(r)
  /\ IF ~ensureOpen
       THEN /\ last' = Outcome("write", "NotOpen", <<>>, 0, 0)
            /\ UNCHANGED <<pc, reqPort>>
       ELSE /\ reqPort' = [reqPort EXCEPT ![r] = activePort]
            /\ pc' = [pc EXCEPT ![r] = "write_wait"]
            /\ UNCHANGED last
  /\ UNCHANGED <<sessionVars, portVars, timer, crashed, histVars>>
  /\ UNCHANGED <<probeVars, shutdown, tlast>>

\* the callback of activePort.write: reject on error, else activePort.drain,
\* where activePort is read again and may be null by now.  A write completes
\* without error only on a channel that is still open.
WriteCb(r, ok) ==
  /\ ~crashed /\ pc[r] = "write_wait"
  /\ ok => reqPort[r] # NoPort /\ isOpen(reqPort[r])
  /\ IF ~ok
       THEN /\ Settled(r)
            /\ last' = Outcome("write", "WriteError", <<>>, 0, 0)
            /\ UNCHANGED crashed
       ELSE IF activePort = NoPort
         THEN /\ crashed' = TRUE
              /\ UNCHANGED <<pc, reqPort, last>>
         ELSE /\ reqPort' = [reqPort EXCEPT ![r] = NoPort]
              /\ pc' = [pc EXCEPT ![r] = "drain_wait"]
              /\ UNCHANGED <<last, crashed>>
  /\ UNCHANGED <<sessionVars, portVars, timer, histVars>>
  /\ UNCHANGED <<probeVars, shutdown, tlast>>

\* the callback of activePort.drain: reject on error, else resolve and return
DrainCb(r, ok) ==
  /\ ~crashed /\ pc[r] = "drain_wait"
  /\ Settled(r)
  /\ last' = Outcome("write", IF ok THEN "ok" ELSE "DrainError", <<>>, 0, 0)
  /\ UNCHANGED <<sessionVars, portVars, timer, crashed, histVars>>
  /\ UNCHANGED <<probeVars, shutdown, tlast>>

\* -------------------------------------------------------------------- read
\* read up to its await: ensureOpen, readFromBuffer, and when nothing was
\* taken and timeoutMs > 0, activePort.on('data', onData) and setTimeout
CallRead(r, mb, t) ==
  /\ ~crashed /\ FreeSlot(r)
  /\ IF ~ensureOpen
       THEN /\ last' = Outcome("read", "NotOpen", <<>>, 0, 0)
            /\ UNCHANGED <<rxBuffer, listeners, timer, pc, reqPort, consumed>>
       ELSE IF shouldWait(readFromBuffer(rxBuffer, mb), t)
         THEN /\ listeners' = [listeners EXCEPT ![activePort] =
                                 Append(@, [req |-> r, mb |-> mb, live |-> TRUE])]
              /\ timer' = [timer EXCEPT ![r] = TRUE]
              /\ pc' = [pc EXCEPT ![r] = "read_wait"]
              /\ UNCHANGED <<rxBuffer, reqPort, last, consumed>>
         ELSE /\ rxBuffer' = restOfBuffer(rxBuffer, mb)
              /\ consumed' = consumed \o readFromBuffer(rxBuffer, mb)
              /\ last' = Outcome("read", "ok",
                                 readFromBuffer(rxBuffer, mb), mb, t)
              /\ UNCHANGED <<listeners, timer, pc, reqPort>>
  /\ UNCHANGED <<activePort, activePortName, portState, portPath,
                 portHandlers, crashed, nextByte, arrived>>
  /\ UNCHANGED <<probeVars, shutdown, tlast>>

\* the timeout callback of read: activePort.off('data', onData), where
\* activePort is read again and may be null by now, then resolve(null).
\* off has no effect on another object than the one onData is registered on.
TimerFire(r) ==
  /\ ~crashed /\ timer[r]
  /\ timer' = [timer EXCEPT ![r] = FALSE]
  /\ IF activePort = NoPort
       THEN /\ crashed' = TRUE
            /\ UNCHANGED <<listeners, pc, reqPort, last>>
       ELSE /\ listeners' =
                 [p \in Ports |->
                    IF p = activePort
                      THEN SelectSeq(listeners[p],
                                     LAMBDA e : ~(e.live /\ e.req = r))
                      ELSE Settle(listeners[p], r)]
            /\ Settled(r)
            /\ last' = Outcome("read", "ok", <<>>, 0, TestTimeoutMs)
            /\ UNCHANGED crashed
  /\ UNCHANGED <<sessionVars, portState, portPath, portHandlers,
                 histVars>>
  /\ UNCHANGED <<probeVars, shutdown, tlast>>

\* -------------------------------------------------------------- data event
\* One onData listener e of a read, registered on channel p, run on the
\* state st the listeners before it left: readFromBuffer; if it took bytes,
\* clearTimeout, activePort.off('data', onData) with activePort as it is now
\* (a TypeError when it is null, no effect when it is not p), then resolve(c),
\* which only the first settlement of the promise honours.
onData(p, e, st) ==
  IF st.crashed \/ st.rx = <<>> THEN st
  ELSE LET c == readFromBuffer(st.rx, e.mb)
           live == e.live
           taken == [st EXCEPT !.rx = restOfBuffer(st.rx, e.mb),
                               !.timer = IF live
                                           THEN [@ EXCEPT ![e.req] = FALSE]
                                           ELSE @]
       IN IF activePort = NoPort
            THEN [taken EXCEPT !.crashed = TRUE]
            ELSE [taken EXCEPT
                    !.listeners = [@ EXCEPT ![p] =
                       IF activePort = p THEN RemoveFirst(@, e)
                       ELSE IF live THEN Settle(@, e.req) ELSE @],
                    !.pc = IF live THEN [@ EXCEPT ![e.req] = "idle"] ELSE @,
                    !.reqPort = IF live THEN [@ EXCEPT ![e.req] = NoPort]
                                ELSE @,
                    !.last = IF live
                               THEN Outcome("read", "ok", c, e.mb,
                                            TestTimeoutMs)
                               ELSE @,
                    !.consumed = IF live THEN @ \o c ELSE @]

\* emit('data'): the listeners registered when the event is emitted run in
\* the order of their registration
RECURSIVE emitData(_, _, _)
emitData(p, ls, st) ==
  IF ls = <<>> THEN st ELSE emitData(p, Tail(ls), onData(p, Head(ls), st))

\* the chunk of n bytes a channel delivers next
Chunk(n) == [i \in 1..n |-> nextByte + i - 1]

\* A 'data' event of an open channel: first the handler openPort registered
\* appends the chunk to rxBuffer, then the onData listeners of the reads
\* suspended on that channel run.
Data(p, n) ==
  /\ ~crashed /\ isOpen(p) /\ portHandlers[p]
  /\ nextByte + n - 1 <= MaxBytes
  /\ LET st == emitData(p, listeners[p],
                 [rx |-> appendChunk(rxBuffer, Chunk(n)), timer |-> timer,
                  listeners |-> listeners, pc |-> pc, reqPort |-> reqPort,
                  last |-> last, consumed |-> consumed, crashed |-> FALSE])
     IN /\ rxBuffer' = st.rx
        /\ timer' = st.timer
        /\ listeners' = st.listeners
        /\ pc' = st.pc
        /\ reqPort' = st.reqPort
        /\ last' = st.last
        /\ consumed' = st.consumed
        /\ crashed' = st.crashed
  /\ arrived' = appendChunk(arrived, Chunk(n))
  /\ nextByte' = nextByte + n
  /\ UNCHANGED <<activePort, activePortName, portState, portPath,
                 portHandlers>>
  /\ UNCHANGED <<probeVars, shutdown, tlast>>

\* --------------------------------------------------------------- closePort
\* the fields closePort resets after the close
ResetSession ==
  /\ activePort' = NoPort
  /\ activePortName' = ""
  /\ rxBuffer' = <<>>

\* closePort up to its await: activePort.close(cb) when the port is open,
\* else the reset at once
CallClosePort(r) ==
  /\ ~crashed /\ FreeSlot(r)
  /\ IF mustClose
       THEN /\ portState' = [portState EXCEPT ![activePort] = "closing"]
            /\ reqPort' = [reqPort EXCEPT ![r] = activePort]
            /\ pc' = [pc EXCEPT ![r] = "close_wait"]
            /\ UNCHANGED <<sessionVars, last>>
       ELSE /\ ResetSession
            /\ last' = Outcome("closePort", "ok", <<>>, 0, 0)
            /\ UNCHANGED <<portState, pc, reqPort>>
  /\ UNCHANGED <<portPath, portHandlers, listeners, timer, crashed, histVars>>
  /\ UNCHANGED <<probeVars, shutdown, tlast>>

\* the channel closed: its 'close' event runs the handler of openPort, then
\* the callback of close resolves and closePort resets the session
CloseDone(r) ==
  /\ ~crashed /\ pc[r] = "close_wait"
  /\ Dispose(reqPort[r])
  /\ listeners' = Disposed(listeners, reqPort[r])
  /\ ResetSession
  /\ pc' = [pc EXCEPT ![r] = "idle"]
  /\ reqPort' = [Orphaned(reqPort, reqPort[r]) EXCEPT ![r] = NoPort]
  /\ last' = IF r \in shutdown.slots THEN last
             ELSE Outcome("closePort", "ok", <<>>, 0, 0)
  /\ shutdown' = sigintDone(r, TRUE)
  /\ UNCHANGED <<timer, crashed, histVars>>
  /\ UNCHANGED <<probeVars, tlast>>

\* the channel reported an error while closing: it stays open, the callback
\* of close rejects and closePort throws before its reset
CloseFail(r) ==
  /\ ~crashed /\ pc[r] = "close_wait"
  /\ portState' = [portState EXCEPT ![reqPort[r]] = "open"]
  /\ Settled(r)
  /\ last' = IF r \in shutdown.slots THEN last
             ELSE Outcome("closePort", "CloseError", <<>>, 0, 0)
  /\ shutdown' = sigintDone(r, FALSE)
  /\ UNCHANGED <<sessionVars, portPath, portHandlers, listeners, timer,
                 crashed, histVars>>
  /\ UNCHANGED <<probeVars, tlast>>

\* ---------------------------------------------------------- channel events
\* the 'close' handler of openPort: activePort = null; activePortName = ''
closeHandler ==
  /\ activePort' = NoPort
  /\ activePortName' = ""
  /\ UNCHANGED rxBuffer

\* an open channel closes by itself (the device was unplugged): its 'close'
\* event runs the handler of openPort
UnsolicitedClose(p) ==
  /\ ~crashed /\ isOpen(p) /\ portHandlers[p]
  /\ Dispose(p)
  /\ listeners' = Disposed(listeners, p)
  /\ reqPort' = Orphaned(reqPort, p)
  /\ closeHandler
  /\ UNCHANGED <<pc, timer, last, crashed, histVars>>
  /\ UNCHANGED <<probeVars, shutdown, tlast>>

\* an 'error' event of an open channel: the handler of openPort ignores it
PortError(p) ==
  /\ ~crashed /\ isOpen(p) /\ portHandlers[p]
  /\ UNCHANGED vars

Next ==
  \/ \E r \in Reqs, name \in Names : CallOpenPort(r, name)
  \/ \E r \in Reqs : OpenDone(r)
  \/ \E r \in Reqs, e \in OpenErrors : OpenFail(r, e)
  \/ \E r \in Reqs : CallWrite(r)
  \/ \E r \in Reqs, ok \in BOOLEAN : WriteCb(r, ok)
  \/ \E r \in Reqs, ok \in BOOLEAN : DrainCb(r, ok)
  \/ \E r \in Reqs, mb \in MaxBytesArgs, t \in TimeoutArgs : CallRead(r, mb, t)
  \/ \E r \in Reqs : TimerFire(r)
  \/ \E p \in Ports, n \in ChunkLens : Data(p, n)
  \/ \E r \in Reqs : CallClosePort(r)
  \/ \E r \in Reqs : CloseDone(r)
  \/ \E r \in Reqs : CloseFail(r)
  \/ \E p \in Ports : UnsolicitedClose(p)
  \/ \E p \in Ports : PortError(p)

Spec == Init /\ [][Next]_vars

\* ------------------------------------------------------ sequential client
\* the client of test/read-com24-sdk.js awaits the result of each call before
\* it makes the next one: a call is made only when no request is pending
Sequential == \A r \in Reqs : pc[r] = "idle"

NextSequential ==
  \/ Sequential /\ \E r \in Reqs, name \in Names : CallOpenPort(r, name)
  \/ Sequential /\ \E r \in Reqs : CallWrite(r)
  \/ Sequential /\ \E r \in Reqs, mb \in MaxBytesArgs, t \in TimeoutArgs :
                     CallRead(r, mb, t)
  \/ Sequential /\ \E r \in Reqs : CallClosePort(r)
  \/ \E r \in Reqs : OpenDone(r)
  \/ \E r \in Reqs, e \in OpenErrors : OpenFail(r, e)
  \/ \E r \in Reqs, ok \in BOOLEAN : WriteCb(r, ok)
  \/ \E r \in Reqs, ok \in BOOLEAN : DrainCb(r, ok)
  \/ \E r \in Reqs : TimerFire(r)
  \/ \E p \in Ports, n \in ChunkLens : Data(p, n)
  \/ \E r \in Reqs : CloseDone(r)
  \/ \E r \in Reqs : CloseFail(r)
  \/ \E p \in Ports : UnsolicitedClose(p)
  \/ \E p \in Ports : PortError(p)

SpecSequential == Init /\ [][NextSequential]_vars

\* ---------------------------------------------------------------- shutdown
\* the SIGINT handler of index.js up to its await: closePort, which closes
\* the open channel or resets the session at once; in the second case the
\* handler goes on to process.exit(0)
Sigint(r) ==
  /\ ~crashed /\ shutdown.state # "exited" /\ FreeSlot(r)
  /\ IF mustClose
       THEN /\ portState' = [portState EXCEPT ![activePort] = "closing"]
            /\ reqPort' = [reqPort EXCEPT ![r] = activePort]
            /\ pc' = [pc EXCEPT ![r] = "close_wait"]
            /\ shutdown' = Closing(r)
            /\ UNCHANGED sessionVars
       ELSE /\ ResetSession
            /\ shutdown' = Exited
            /\ UNCHANGED <<portState, pc, reqPort>>
  /\ UNCHANGED <<portPath, portHandlers, listeners, timer, last, crashed,
                 histVars>>
  /\ UNCHANGED <<probeVars, tlast>>

\* the serial session with the shutdown signal: nothing runs after the exit
NextShutdown ==
  \/ shutdown.state # "exited" /\ Next
  \/ \E r \in Reqs : Sigint(r)

SpecShutdown == Init /\ [][NextShutdown]_vars

\* the callback of close is delivered to a closePort that waits for it
SpecShutdownFair ==
  SpecShutdown /\ \A r \in Reqs : WF_vars(CloseDone(r) \/ CloseFail(r))

\* ------------------------------------------------------------ debug servers
FreeDebugSlot(r) == dpc[r] = "idle" /\ \A q \in Reqs : q < r => dpc[q] # "idle"

\* the next ChildProcess object that spawn creates
FreeChild(c) ==
  /\ child[c].state = "none"
  /\ \A d \in Children : d < c => child[d].state # "none"

\* gdbPort = port || 4242 (3333, 2331)
portOrDefault(b, port) == IF port # 0 THEN port ELSE DefaultGdbPort[b]

\* the request that holds child c, suspended at `at`; the variant takes
\* the listeners of one child for those of every child
Holds_AnyChild(r, c, at) == dpc[r] = at

Holds(r, c, at) == dpc[r] = at /\ dreq[r].child = c

\* ChildProcess objects that have exited and that no slot, request or
\* timer refers to any more are gone
Collect(ch, pr, rq) ==
  [c \in Children |->
     IF /\ ch[c].state = "exited" /\ ~ch[c].timer
        /\ \A b \in Backends : pr[b] # c
        /\ \A r \in Reqs : rq[r].child # c
       THEN NoProcess ELSE ch[c]]

\* the suspended debug request of slot r settles with outcome o
DebugSettled(r, o) ==
  /\ dpc' = [dpc EXCEPT ![r] = "idle"]
  /\ dreq' = [dreq EXCEPT ![r] = NoRequest]
  /\ dlast' = o

\* the variant of Cleanup that detaches the listeners of every child
Cleanup_All(c, state) ==
  [d \in Children |->
     [child[d] EXCEPT !.listening = FALSE,
                      !.state = IF d = c THEN state ELSE @]]

\* cleanup() of startDebug, and what else changes of child c
Cleanup(c, state) ==
  [child EXCEPT ![c].listening = FALSE, ![c].state = state]

\* if (stUtilProc): a running_* variant is the check done wrongly
running_Always(b) == TRUE

running(b) == proc[b] # NoChild

\* onExit of startDebug, where started is false while it is attached: a
\* variant that takes started for true rejects nothing
onExit_Started(c) == UNCHANGED <<dpc, dreq, dlast>>

onExit(c) ==
  \E r \in Reqs :
    /\ Holds(r, c, "start_wait")
    /\ DebugSettled(r, DebugOutcome("startDebug", "Exited"))

\* onError of startDebug
onError(c) ==
  \E r \in Reqs :
    /\ Holds(r, c, "start_wait")
    /\ DebugSettled(r, DebugOutcome("startDebug", "StartFailed"))

\* startDebug up to its await: the slot check, then isExecutable
CallStartDebug(r, b, port) ==
  /\ FreeDebugSlot(r)
  /\ IF running(b)
       THEN /\ dlast' = DebugOutcome("startDebug", "AlreadyRunning")
            /\ UNCHANGED <<dpc, dreq>>
       ELSE /\ dpc' = [dpc EXCEPT ![r] = "probe"]
            /\ dreq' = [dreq EXCEPT ![r] =
                          [backend |-> b, child |-> NoChild, port |-> port,
                           op |-> "", chunks |-> 0]]
            /\ UNCHANGED dlast
  /\ UNCHANGED <<proc, gdbPort, child, serialVars, shutdown, tlast>>

\* startDebug after isExecutable: not found, or gdbPort is set, the child
\* is spawned (the spawn may fail) and the listeners are attached
StartSpawn(r, found, ok) ==
  /\ dpc[r] = "probe"
  /\ LET b == dreq[r].backend IN
       IF ~found
         THEN /\ DebugSettled(r, DebugOutcome("startDebug", "NotFound"))
              /\ UNCHANGED <<gdbPort, child>>
         ELSE \E c \in Children :
                /\ FreeChild(c)
                /\ gdbPort' = [gdbPort EXCEPT
                                 ![b] = portOrDefault(b, dreq[r].port)]
                /\ child' = [child EXCEPT ![c] =
                              Spawned(b, ok, gdbPort'[b])]
                /\ dpc' = [dpc EXCEPT ![r] = "start_wait"]
                /\ dreq' = [dreq EXCEPT ![r].child = c]
                /\ UNCHANGED dlast
  /\ UNCHANGED <<proc, serialVars, shutdown, tlast>>

\* onData with a ready phrase: started, the slot records the child,
\* cleanup, resolve
Ready(c) ==
  /\ child[c].state = "alive" /\ child[c].listening
  /\ proc' = [proc EXCEPT ![child[c].backend] = c]
  /\ child' = Cleanup(c, "alive")
  /\ \E r \in Reqs :
       /\ Holds(r, c, "start_wait")
       /\ DebugSettled(r, DebugOutcome("startDebug", "Started"))
  /\ UNCHANGED <<gdbPort, serialVars, shutdown, tlast>>

\* onData with any other text
OtherOutput(c) ==
  /\ child[c].state = "alive" /\ child[c].listening
  /\ UNCHANGED vars

\* onError: the child could not be spawned; cleanup, reject
SpawnError(c) ==
  /\ child[c].state = "failed" /\ child[c].listening
  /\ onError(c)
  /\ child' = Collect(Cleanup(c, "exited"), proc, dreq')
  /\ UNCHANGED <<proc, gdbPort, serialVars, shutdown, tlast>>

\* the exit event of a child: onExit of a startDebug that has not started
\* (cleanup, reject), the exit listener of a stopDebug (resolve), or no
\* listener at all
Exit(c) ==
  /\ child[c].state = "alive"
  /\ IF child[c].listening
       THEN onExit(c)
       ELSE IF \E r \in Reqs : Holds(r, c, "stop_wait")
         THEN \E r \in Reqs :
                /\ Holds(r, c, "stop_wait")
                /\ DebugSettled(r, DebugOutcome("stopDebug", "Stopped"))
         ELSE UNCHANGED <<dpc, dreq, dlast>>
  /\ child' = Collect(Cleanup(c, "exited"), proc, dreq')
  /\ UNCHANGED <<proc, gdbPort, serialVars, shutdown, tlast>>

\* child.kill(sig): the signal is sent to a process that is there and
\* does nothing for one that has exited; the variant sends it regardless
kill_Exited(c, sig) == sig

kill(c, sig) == IF child[c].state = "alive" THEN sig ELSE child[c].signal

\* stopDebug: the slot check; then the slot is cleared, the exit listener
\* attached, SIGTERM sent and the kill timer armed, unless child.once or
\* child.kill throws (kill can throw only while the process is there)
CallStopDebug(r, b, throws) ==
  /\ FreeDebugSlot(r)
  /\ throws => proc[b] # NoChild /\ child[proc[b]].state = "alive"
  /\ IF ~running(b)
       THEN /\ dlast' = DebugOutcome("stopDebug", "NotRunning")
            /\ UNCHANGED <<proc, child, dpc, dreq>>
       ELSE /\ proc' = [proc EXCEPT ![b] = NoChild]
            /\ IF throws \/ proc[b] = NoChild
                 THEN /\ dlast' = DebugOutcome("stopDebug", "Terminated")
                      /\ UNCHANGED <<child, dpc, dreq>>
                 ELSE /\ child' = [child EXCEPT
                            ![proc[b]].signal = kill(proc[b], "SIGTERM"),
                            ![proc[b]].timer = TRUE]
                      /\ dpc' = [dpc EXCEPT ![r] = "stop_wait"]
                      /\ dreq' = [dreq EXCEPT ![r] =
                                    [backend |-> b, child |-> proc[b],
                                     port |-> 0, op |-> "", chunks |-> 0]]
                      /\ UNCHANGED dlast
  /\ UNCHANGED <<gdbPort, serialVars, shutdown, tlast>>

\* the timer of stopDebug: SIGKILL, which a child that has exited ignores
GraceTimer(c) ==
  /\ child[c].timer
  /\ child' = Collect([child EXCEPT
                         ![c].timer = FALSE,
                         ![c].signal = kill(c, "SIGKILL")],
                      proc, dreq)
  /\ UNCHANGED <<proc, gdbPort, dpc, dreq, dlast, serialVars, shutdown, tlast>>

\* the debug servers alone, started with or without a port argument
NextPorts ==
  \/ \E r \in Reqs, b \in Backends :
       \E port \in StartPorts[b] : CallStartDebug(r, b, port)
  \/ \E r \in Reqs, found \in BOOLEAN, ok \in BOOLEAN : StartSpawn(r, found, ok)
  \/ \E c \in Children : Ready(c)
  \/ \E c \in Children : SpawnError(c)
  \/ \E c \in Children : Exit(c)
  \/ \E r \in Reqs, b \in Backends, throws \in BOOLEAN :
       CallStopDebug(r, b, throws)
  \/ \E c \in Children : GraceTimer(c)

SpecPorts == Init /\ [][NextPorts]_vars

\* the variant of gdbCommand without the slot check
gdbCommand_Connect(r, op) ==
  /\ dpc' = [dpc EXCEPT ![r] = "gdb_wait"]
  /\ dreq' = [dreq EXCEPT ![r] =
                [backend |-> "stlink", child |-> NoChild,
                 port |-> gdbPort["stlink"], op |-> op, chunks |-> 0]]
  /\ UNCHANGED dlast

\* gdbCommand of stlink.js up to its await: the slot check, then the
\* connection to gdbPort
gdbCommand(r, op) ==
  IF ~running("stlink")
    THEN /\ dlast' = DebugOutcome(op, "NotRunning")
         /\ UNCHANGED <<dpc, dreq>>
    ELSE /\ dpc' = [dpc EXCEPT ![r] = "gdb_wait"]
         /\ dreq' = [dreq EXCEPT ![r] =
                       [backend |-> "stlink", child |-> NoChild,
                        port |-> gdbPort["stlink"], op |-> op,
                        chunks |-> 0]]
         /\ UNCHANGED dlast

\* setBreakpoint of stlink.js: the addr checks come before gdbCommand
CallSetBreakpoint(r, addr) ==
  /\ FreeDebugSlot(r)
  /\ IF addr.type = "undefined"
       THEN /\ dlast' = DebugOutcome("setBreakpoint", "RequiresArgument")
            /\ UNCHANGED <<dpc, dreq>>
       ELSE IF ~parseIntHexOrDec(addr).ok
              THEN /\ dlast' = DebugOutcome("setBreakpoint", "InvalidArgument")
                   /\ UNCHANGED <<dpc, dreq>>
              ELSE gdbCommand(r, "setBreakpoint")
  /\ UNCHANGED <<proc, gdbPort, child, serialVars, shutdown, tlast>>

\* step of stlink.js
CallStep(r) ==
  /\ FreeDebugSlot(r)
  /\ gdbCommand(r, "step")
  /\ UNCHANGED <<proc, gdbPort, child, serialVars, shutdown, tlast>>

\* readVar of stlink.js: the name check comes before gdbCommand
CallReadVar(r, hasName) ==
  /\ FreeDebugSlot(r)
  /\ IF ~hasName
       THEN /\ dlast' = DebugOutcome("readVar", "RequiresArgument")
            /\ UNCHANGED <<dpc, dreq>>
       ELSE gdbCommand(r, "readVar")
  /\ UNCHANGED <<proc, gdbPort, child, serialVars, shutdown, tlast>>

\* the text a settling command returns: its chunks, joined
gdbText_Empty(r) == 0

gdbText(r) == dreq[r].chunks

\* the data event of the connection: one more chunk
GdbData(r) ==
  /\ dpc[r] = "gdb_wait"
  /\ dreq[r].chunks < MaxChunks
  /\ dreq' = [dreq EXCEPT ![r].chunks = @ + 1]
  /\ UNCHANGED <<proc, gdbPort, child, dpc, dlast, serialVars, shutdown, tlast>>

\* the end event: the remote end closed
GdbEnd(r) ==
  /\ dpc[r] = "gdb_wait"
  /\ DebugSettled(r, DebugOutput(dreq[r].op, gdbText(r)))
  /\ UNCHANGED <<proc, gdbPort, child, serialVars, shutdown, tlast>>

\* the timeout event: 600 ms without activity; the connection is ended
GdbTimeout(r) ==
  /\ dpc[r] = "gdb_wait"
  /\ DebugSettled(r, DebugOutput(dreq[r].op, gdbText(r)))
  /\ UNCHANGED <<proc, gdbPort, child, serialVars, shutdown, tlast>>

\* the error event: the connection is destroyed and the command rejects
GdbError(r) ==
  /\ dpc[r] = "gdb_wait"
  /\ DebugSettled(r, DebugOutcome(dreq[r].op, "SocketError"))
  /\ UNCHANGED <<proc, gdbPort, child, serialVars, shutdown, tlast>>

\* an end or error event of a connection whose command has settled on its
\* timeout: resolve and reject of a settled promise change nothing
GdbLate ==
  /\ dlast.kind = "Output"
  /\ UNCHANGED vars

\* the variant of writeRegister that returns a result
writeRegister_Done(addr, value) == "Result"

\* writeRegister of stlink.js: addr and value are parsed, then it throws the
\* not-supported error
writeRegister(addr, value) ==
  IF ~parseIntHexOrDec(addr).ok \/ ~parseIntHexOrDec(value).ok
    THEN "InvalidArgument"
    ELSE "UnsupportedOperation"

\* a call of writeRegister: it has no await and reads no module state
CallWriteRegister(addr, value) ==
  /\ dlast' = DebugOutcome("writeRegister", writeRegister(addr, value))
  /\ UNCHANGED <<proc, gdbPort, child, dpc, dreq, serialVars, shutdown, tlast>>

NextProbe ==
  \/ \E r \in Reqs, b \in Backends, port \in PortArgs : CallStartDebug(r, b, port)
  \/ \E r \in Reqs, found \in BOOLEAN, ok \in BOOLEAN : StartSpawn(r, found, ok)
  \/ \E c \in Children : Ready(c)
  \/ \E c \in Children : OtherOutput(c)
  \/ \E c \in Children : SpawnError(c)
  \/ \E c \in Children : Exit(c)
  \/ \E r \in Reqs, b \in Backends, throws \in BOOLEAN : CallStopDebug(r, b, throws)
  \/ \E c \in Children : GraceTimer(c)
  \/ \E r \in Reqs, addr \in DebugAddrs : CallSetBreakpoint(r, addr)
  \/ \E r \in Reqs : CallStep(r)
  \/ \E r \in Reqs, hasName \in BOOLEAN : CallReadVar(r, hasName)
  \/ \E r \in Reqs : GdbData(r)
  \/ \E r \in Reqs : GdbEnd(r)
  \/ \E r \in Reqs : GdbTimeout(r)
  \/ \E r \in Reqs : GdbError(r)
  \/ GdbLate
  \/ \E addr \in DebugAddrs, value \in DebugAddrs :
       CallWriteRegister(addr, value)

SpecProbe == Init /\ [][NextProbe]_vars

\* the inactivity timer of a connection fires unless the command settled
\* before: a connection receives a bounded number of chunks
SpecProbeFair == SpecProbe /\ \A r \in Reqs : WF_vars(GdbTimeout(r))

\* ------------------------------------------------------------ one-shot tools
\* process.env.X_PATH || 'name': the override when it is set, else the
\* default name; a command is a path (an override, a name ending in .exe) or
\* a bare name
resolveTool(name, env) ==
  IF env.override # "unset"
    THEN [path |-> TRUE, exists |-> env.override = "file"]
    ELSE [path |-> name \in ExeNames, exists |-> env.found]

\* isExecutable(cmd): access() for a path; for a bare name the probe run,
\* whose promise rejects when the spawn fails and when the exit status is
\* not 0
isExecutable(cmd, env) ==
  IF cmd.path THEN cmd.exists
  ELSE cmd.exists /\ env.probeExit = 0

\* the process isExecutable runs: the probe of a bare name that can be spawned
probeRuns(cmd, env) ==
  IF ~cmd.path /\ cmd.exists THEN <<"probe">> ELSE <<>>

\* execFileAsync(tool, args) in try/catch: the result without an ok field, or
\* the error '<tool> failed: ...'
execTool(env, runs) ==
  IF env.toolExit = 0
    THEN Out("Result", "absent", runs \o <<"tool">>, 0)
    ELSE Thrown("ToolFailed", runs \o <<"tool">>, env.toolExit)

\* the tools of stlink.js tried in order: the first executable one runs;
\* flashFirmware parses addr after the probe of the tool, when addr is given
RECURSIVE tryTools(_, _, _, _, _)
tryTools(tools, chain, i, addr, runs) ==
  IF i > Len(tools) THEN Thrown("ToolNotFound", runs, 0)
  ELSE LET cmd == resolveTool(tools[i], chain[i])
           probed == runs \o probeRuns(cmd, chain[i])
       IN IF ~isExecutable(cmd, chain[i])
            THEN tryTools(tools, chain, i + 1, addr, probed)
          ELSE IF addr.type # "undefined" /\ ~parseIntHexOrDec(addr).ok
            THEN Thrown("InvalidArgument", probed, 0)
          ELSE execTool(chain[i], probed)

\* flashFirmware of openocd.js after the path check: addr goes through
\* parseInt unchecked, a number has no startsWith
openocdFlash(chain, addr) ==
  LET cmd == resolveTool(OpenOcdTools[1], chain[1])
      probed == probeRuns(cmd, chain[1])
  IN IF ~isExecutable(cmd, chain[1]) THEN Thrown("ToolNotFound", probed, 0)
     ELSE IF addr.type = "number" THEN Thrown("TypeError", probed, 0)
     ELSE execTool(chain[1], probed)

\* flashFirmware of stlink.js and of openocd.js
CallFlashFirmware(b, pathOk, addr, chain) ==
  /\ tlast' = ToolCall("flashFirmware", b, addr, chain[1],
                IF ~pathOk THEN Thrown("InvalidPath", <<>>, 0)
                ELSE IF b = "stlink"
                  THEN tryTools(FlashTools, chain, 1, addr, <<>>)
                  ELSE openocdFlash(chain, addr))
  /\ UNCHANGED <<serialVars, probeVars, shutdown>>

\* resetDevice of stlink.js
CallResetDevice(chain) ==
  /\ tlast' = ToolCall("resetDevice", "stlink", Missing, chain[1],
                       tryTools(FlashTools, chain, 1, Missing, <<>>))
  /\ UNCHANGED <<serialVars, probeVars, shutdown>>

\* the tool of the call ran: it was given the name of a dump file
toolRan(out) == \E i \in 1..Len(out.runs) : out.runs[i] = "tool"

\* readFile(tmpFile) after the tool, inside the same try: a dump that is
\* missing or cannot be read throws '<tool> read failed'
readFile(out, dump) ==
  IF out.kind = "Result" /\ ~(dump.written /\ dump.readable)
    THEN Thrown("ToolFailed", out.runs, out.exit)
    ELSE out

\* the variant of unlink that is never run: the dump stays where it is
unlink_Skipped(dump) == dump.written

\* finally { try { unlink(tmpFile) } catch {} }: whether the file exists
\* afterwards; an error of unlink is ignored
unlink(dump) == dump.written /\ ~dump.removable

\* readRegister of stlink.js: addr and length (4 when omitted) are parsed
\* first; the tool that is found dumps to a temporary file, which is read
\* and, on every path, removed
CallReadRegister(addr, length, chain) ==
  /\ \E out \in {IF \/ ~parseIntHexOrDec(addr).ok
                    \/ /\ length.type # "undefined"
                       /\ ~parseIntHexOrDec(length).ok
                   THEN Thrown("InvalidArgument", <<>>, 0)
                   ELSE tryTools(ReadTools, chain, 1, Missing, <<>>)} :
       IF ~toolRan(out)
         THEN tlast' = ToolCall("readRegister", "stlink", addr, chain[1], out)
         ELSE \E dump \in Dumps :
                tlast' = [ToolCall("readRegister", "stlink", addr, chain[1],
                                   readFile(out, dump))
                            EXCEPT !.dump = dump, !.tmp = unlink(dump)]
  /\ UNCHANGED <<serialVars, probeVars, shutdown>>

\* execAsync(cmd) in try/catch: the command runs in a shell, which exits
\* with ShellNotFound when the command is not found; a status other than 0
\* rejects, and the catch returns ok: false
execShell(env) ==
  LET exit == IF env.found THEN env.toolExit ELSE ShellNotFound
  IN IF exit = 0 THEN Out("Result", "true", <<"shell">>, 0)
     ELSE Out("Result", "false", <<"shell">>, exit)

\* compile of compiler.js: cubeide needs its CLI (the override, when it is an
\* existing file, else a default install path) and a project; make runs
\* in a shell
CallCompile(tool, hasProject, env) ==
  /\ tlast' = ToolCall("compile", tool, Missing, env,
                IF tool = "cubeide" /\ ~(env.override = "file" \/ env.found)
                  THEN Thrown("ToolNotFound", <<>>, 0)
                ELSE IF tool = "cubeide" /\ ~hasProject
                  THEN Thrown("RequiresArgument", <<>>, 0)
                ELSE IF tool = "cubeide"
                  THEN execShell([env EXCEPT !.found = TRUE])
                ELSE execShell(env))
  /\ UNCHANGED <<serialVars, probeVars, shutdown>>

\* gitCommit and gitDiff of project.js
CallGit(op, hasMessage, env) ==
  /\ tlast' = ToolCall(op, "git", Missing, env,
                IF op = "gitCommit" /\ ~hasMessage
                  THEN Thrown("RequiresArgument", <<>>, 0)
                  ELSE execShell(env))
  /\ UNCHANGED <<serialVars, probeVars, shutdown>>

\* the probe of a tool as its callers use it: resolve, isExecutable, and the
\* not-found error when it is false
CallProbe(name, env) ==
  /\ LET cmd == resolveTool(name, env)
     IN tlast' = ToolCall("probe", name, Missing, env,
                   IF isExecutable(cmd, env)
                     THEN Out("Available", "absent", probeRuns(cmd, env), 0)
                     ELSE Thrown("ToolNotFound", probeRuns(cmd, env),
                                 IF probeRuns(cmd, env) = <<>> THEN 0
                                 ELSE env.probeExit))
  /\ UNCHANGED <<serialVars, probeVars, shutdown>>

NextTools ==
  \/ \E b \in {"stlink", "openocd"}, pathOk \in BOOLEAN, addr \in ToolArgs :
       \E chain \in Chains(IF b = "stlink" THEN FlashTools ELSE OpenOcdTools) :
         CallFlashFirmware(b, pathOk, addr, chain)
  \/ \E chain \in Chains(FlashTools) : CallResetDevice(chain)
  \/ \E addr \in ToolArgs, length \in LengthArgs, chain \in Chains(ReadTools) :
       CallReadRegister(addr, length, chain)
  \/ \E tool \in {"make", "cubeide"}, hasProject \in BOOLEAN, env \in ToolEnvs :
       CallCompile(tool, hasProject, env)
  \/ \E op \in {"gitCommit", "gitDiff"}, hasMessage \in BOOLEAN,
        env \in ToolEnvs : CallGit(op, hasMessage, env)
  \/ \E name \in ToolNames, env \in ToolEnvs : CallProbe(name, env)

SpecTools == Init /\ [][NextTools]_vars

\* ------------------------------------------------------------------ claims
\* a serial session is open: there is an active channel and it is open
SessionOpen == activePort # NoPort /\ portState[activePort] = "open"

\* the destroyed lifecycle point of the session
Destroyed == activePort = NoPort /\ activePortName = "" /\ rxBuffer = <<>>

\* a step in which a closePort call returns or throws
ClosePortReturns ==
  \/ \E r \in Reqs : CloseDone(r) \/ CloseFail(r)
  \/ ~mustClose /\ \E r \in Reqs : CallClosePort(r)

\* C1: FIFO. While a session is open, the bytes the reads returned since the
\* session was opened, followed by the receive buffer, are exactly the bytes
\* that arrived since then, in their order of arrival: none is reordered,
\* duplicated or dropped.
C1_Fifo == SessionOpen => consumed \o rxBuffer = arrived

\* C2: openPort called while a session is open fails with AlreadyOpen and
\* changes neither the session (active channel, name, receive buffer) nor
\* any channel, and constructs no new channel.
C2_OpenWhileOpen ==
  [][(SessionOpen /\ \E r \in Reqs, name \in Names : CallOpenPort(r, name))
       => /\ last'.op = "openPort" /\ last'.kind = "AlreadyOpen"
          /\ UNCHANGED <<sessionVars, portVars, pc, reqPort>>]_vars

\* C2 witness: an openPort was refused while a session with received bytes
\* is open
C2_Witness ==
  /\ last.op = "openPort" /\ last.kind = "AlreadyOpen"
  /\ SessionOpen /\ rxBuffer # <<>>

\* C3: at most one serial channel is open at any time, and every open
\* channel is the active channel of the session.
C3_SingleChannel ==
  /\ Cardinality({p \in Ports : portState[p] = "open"}) <= 1
  /\ \A p \in Ports : portState[p] = "open" => activePort = p

\* C4: closePort is idempotent: every closePort call returns a confirmation,
\* and a closePort that follows a closePort leaves the session as it was.
C4_CloseIdempotent ==
  [][ClosePortReturns
       => /\ last'.op = "closePort" /\ last'.kind = "ok"
          /\ (last.op = "closePort" /\ Destroyed
                => UNCHANGED sessionVars)]_vars

\* C5: when a closePort call ends, the session is at its destroyed lifecycle
\* point: no active channel, empty name, empty receive buffer.
C5_CloseResets == [][ClosePortReturns => Destroyed']_vars

\* C6: read on an open session with an empty receive buffer and timeoutMs = 0
\* returns the empty result at once: no listener, no timer, no suspension, no
\* change of the session.
C6_ReadNoWait ==
  [][(SessionOpen /\ rxBuffer = <<>> /\
        \E r \in Reqs, mb \in MaxBytesArgs : CallRead(r, mb, 0))
       => /\ last'.op = "read" /\ last'.kind = "ok" /\ last'.data = <<>>
          /\ UNCHANGED <<sessionVars, portVars, pc, reqPort, timer>>]_vars

\* C6 witness: a read with timeoutMs = 0 returned the empty result on an open
\* session whose buffer is empty
C6_Witness ==
  /\ last.op = "read" /\ last.kind = "ok" /\ last.data = <<>>
  /\ last.timeoutMs = 0 /\ last.maxBytes # 0
  /\ SessionOpen /\ rxBuffer = <<>>

\* C7: a read suspended on its timeout always completes: the process never
\* ends with a read still suspended.
C7_ReadCompletes == ~(crashed /\ \E r \in Reqs : pc[r] = "read_wait")

\* C8: no timer callback, channel event or callback raises an exception that
\* terminates the process.
C8_NoCrash == ~crashed

\* C9: the receive buffer is non-empty only while the session has an active
\* channel.
C9_BufferOnlyWhileOpen == rxBuffer # <<>> => activePort # NoPort

\* C10: while no session is open, read and write fail with NotOpen, hand no
\* bytes to a channel, take no bytes from the receive buffer and change
\* nothing of the session.
C10_NotOpen ==
  [][(~SessionOpen /\
        (\/ \E r \in Reqs : CallWrite(r)
         \/ \E r \in Reqs, mb \in MaxBytesArgs, t \in TimeoutArgs :
              CallRead(r, mb, t)))
       => /\ last'.op \in {"read", "write"} /\ last'.kind = "NotOpen"
          /\ UNCHANGED <<sessionVars, portVars, pc, reqPort, timer,
                         histVars>>]_vars

\* C10 witness: a read was refused with NotOpen after the channel closed by
\* itself, and the bytes left in the receive buffer are still there
C10_Witness ==
  /\ last.op = "read" /\ last.kind = "NotOpen"
  /\ ~SessionOpen /\ rxBuffer # <<>>

\* C11: write returns its byte count only after the write on the channel
\* has completed and, after that, the transmit buffer of that channel has
\* drained: a write call leaves its write wait only into the drain wait of
\* the channel it wrote to or into a failure, leaves its drain wait only by
\* returning or failing, and a byte count is returned only out of a drain
\* wait that completed without error.
C11_WriteThenDrain ==
  [][\A r \in Reqs :
       /\ (pc[r] = "write_wait" /\ pc'[r] = "drain_wait")
            => activePort = reqPort[r]
       /\ (pc[r] = "write_wait" /\ pc'[r] = "idle")
            => last'.op = "write" /\ last'.kind = "WriteError"
       /\ (pc[r] = "drain_wait" /\ pc'[r] # "drain_wait")
            => /\ pc'[r] = "idle" /\ last'.op = "write"
               /\ last'.kind \in {"ok", "DrainError"}
       /\ (pc[r] = "idle" /\ \E q \in Reqs : CallWrite(q))
            => pc'[r] \in {"idle", "write_wait"}]_vars

\* the slot of backend b is Stopped: it records no child
Stopped(b) == proc[b] = NoChild

\* the child processes of backend b that are alive
Alive(b) == {c \in Children : child[c].backend = b /\ child[c].state = "alive"}

\* a startDebug of backend b is in the Starting state: it resolves the
\* executable, or its child is spawned and has not printed a ready phrase
Starting(b) ==
  \E q \in Reqs : dpc[q] \in {"probe", "start_wait"} /\ dreq[q].backend = b

\* a step in which startDebug (stopDebug) of backend b is called
StartDebugCalled(b) == \E r \in Reqs, port \in PortArgs : CallStartDebug(r, b, port)

StopDebugCalled(b) == \E r \in Reqs, throws \in BOOLEAN : CallStopDebug(r, b, throws)

\* C12: startDebug called after a startDebug of the same backend has
\* succeeded, with no stopDebug in between, returns "already running" and
\* spawns no process, and exactly one child process of that backend exists.
C12_SecondStart ==
  [][\A b \in Backends :
       (~Stopped(b) /\ StartDebugCalled(b))
         => /\ dlast'.op = "startDebug" /\ dlast'.kind = "AlreadyRunning"
            /\ UNCHANGED <<proc, gdbPort, child, dpc, dreq>>
            /\ Cardinality(Alive(b)) = 1]_vars

\* C13: startDebug called while a startDebug of the same backend is in the
\* Starting state is a no-op that returns "already running": it does not go
\* on to spawn a process.
C13_StartWhileStarting ==
  [][\A b \in Backends :
       (Starting(b) /\ StartDebugCalled(b))
         => /\ dlast'.op = "startDebug" /\ dlast'.kind = "AlreadyRunning"
            /\ UNCHANGED <<proc, gdbPort, child, dpc, dreq>>]_vars

\* C14: in every reachable state at most one child process of each backend
\* is alive.
C14_OneChildAlive == \A b \in Backends : Cardinality(Alive(b)) <= 1

\* C15: stopDebug always returns: a stopDebug that is suspended waits for a
\* child whose exit event is still to come.
C15_StopReturns ==
  \A r \in Reqs : dpc[r] = "stop_wait" => child[dreq[r].child].state = "alive"

\* C16: when a child that reached Running exits, its slot is cleared: a
\* slot never records a child that has exited.
C16_ExitClearsSlot ==
  \A b \in Backends : ~Stopped(b) => child[proc[b]].state = "alive"

\* a step in which child c, spawned by a startDebug that has not seen a
\* ready phrase, exits or raises its spawn error
FailsBeforeReady(c) == child[c].listening /\ (SpawnError(c) \/ Exit(c))

\* C17: when the spawned process exits or raises a spawn error before a
\* ready phrase, its startDebug fails with a start-failed error, the child
\* is recorded in no slot and no slot changes (a Stopped slot stays
\* Stopped), the child and its listeners are gone, and a startDebug on a
\* Stopped slot goes on to resolve the executable and spawn.
C17_StartFails ==
  [][/\ \A c \in Children :
          FailsBeforeReady(c)
            => /\ dlast'.op = "startDebug"
               /\ dlast'.kind \in {"StartFailed", "Exited"}
               /\ \E r \in Reqs : Holds(r, c, "start_wait") /\ dpc'[r] = "idle"
               /\ \A b \in Backends : proc[b] # c
               /\ UNCHANGED proc
               /\ child'[c] = NoProcess
     /\ \A b \in Backends :
          (Stopped(b) /\ StartDebugCalled(b))
            => \E r \in Reqs : /\ dpc[r] = "idle" /\ dpc'[r] = "probe"
                               /\ dreq'[r].backend = b]_vars

\* C17 witness: a startDebug failed because its child exited before a ready
\* phrase, every slot is Stopped, and a startDebug is on its way to spawn
C17_Witness ==
  /\ dlast.op = "startDebug" /\ dlast.kind = "Exited"
  /\ \A b \in Backends : Stopped(b)
  /\ \E r \in Reqs : dpc[r] = "probe"

\* C18: a startDebug whose child prints no ready phrase and does not exit
\* stays pending: it settles, and its child is recorded in the slot, only in
\* a step in which that child prints a ready phrase, exits or raises its
\* spawn error; while it is pending no timer runs for it.
C18_StartStaysPending ==
  [][\A r \in Reqs :
       dpc[r] = "start_wait"
         => /\ ~child[dreq[r].child].timer
            /\ proc[dreq[r].backend] # dreq[r].child
            /\ (dpc'[r] # "start_wait" \/ proc'[dreq[r].backend] = dreq[r].child)
                 => \/ Ready(dreq[r].child)
                    \/ SpawnError(dreq[r].child)
                    \/ Exit(dreq[r].child)]_vars

\* C18 witness: a startDebug is pending on a live child that has printed no
\* ready phrase, its slot is Stopped, and a request dispatched before it has
\* been served in the meantime
C18_Witness ==
  /\ dpc[2] = "start_wait" /\ dpc[1] = "idle"
  /\ child[dreq[2].child].state = "alive" /\ child[dreq[2].child].listening
  /\ Stopped(dreq[2].backend)
  /\ dlast.op = "stopDebug" /\ dlast.kind = "Stopped"

\* C19: stopDebug on a backend whose slot is Stopped returns "not running"
\* and changes nothing: no slot, no child process (no signal), no timer, no
\* request.
C19_StopWhenStopped ==
  [][\A b \in Backends :
       (Stopped(b) /\ StopDebugCalled(b))
         => /\ dlast' = DebugOutcome("stopDebug", "NotRunning")
            /\ UNCHANGED <<proc, gdbPort, child, dpc, dreq>>]_vars

\* C19 witness: stopDebug answered "not running" while every slot is
\* Stopped and a child process that was sent no signal is alive
C19_Witness ==
  /\ dlast = DebugOutcome("stopDebug", "NotRunning")
  /\ \A b \in Backends : Stopped(b)
  /\ \E c \in Children : /\ child[c].state = "alive"
                         /\ child[c].signal = "none" /\ ~child[c].timer

\* C20: stopDebug on an occupied slot clears the slot in the step in which
\* it is called, and from then until the exit event of the child the
\* backend is seen as not running: while a stopDebug waits for the exit of
\* a live child the slot of its backend is Stopped.
C20_StoppedUntilExit ==
  \A r \in Reqs :
    (dpc[r] = "stop_wait" /\ child[dreq[r].child].state = "alive")
      => Stopped(dreq[r].backend)

\* C21: in stopDebug the graceful signal comes first and the forced kill
\* only when the grace timer expires and the process has not exited: SIGTERM
\* is sent only by a stopDebug call, to a live child that was sent no signal
\* yet, in the step that arms the timer; SIGKILL is sent only by the expiry
\* of that timer, to a live child that was sent SIGTERM before; the timer is
\* armed only by a stopDebug call.
C21_GraceBeforeKill ==
  [][\A c \in Children :
       /\ (child'[c].signal = "SIGTERM" /\ child[c].signal # "SIGTERM")
            => /\ StopDebugCalled(child[c].backend)
               /\ child[c].state = "alive" /\ child[c].signal = "none"
               /\ ~child[c].timer /\ child'[c].timer
       /\ (child'[c].signal = "SIGKILL" /\ child[c].signal # "SIGKILL")
            => /\ GraceTimer(c)
               /\ child[c].state = "alive" /\ child[c].signal = "SIGTERM"
       /\ (child'[c].timer /\ ~child[c].timer)
            => StopDebugCalled(child[c].backend)]_vars

\* C21 witness: a child that ignored SIGTERM was sent SIGKILL by the timer
\* and has not exited yet, while its stopDebug waits
C21_Witness ==
  \E r \in Reqs :
    /\ dpc[r] = "stop_wait"
    /\ child[dreq[r].child].state = "alive"
    /\ child[dreq[r].child].signal = "SIGKILL"
    /\ ~child[dreq[r].child].timer

\* a debug-channel command is called
DebugCommandCalled ==
  \E r \in Reqs :
    \/ \E addr \in DebugAddrs : CallSetBreakpoint(r, addr)
    \/ CallStep(r)
    \/ \E hasName \in BOOLEAN : CallReadVar(r, hasName)

\* a debug-channel command whose arguments pass the checks is called
ValidDebugCommandCalled ==
  \E r \in Reqs :
    \/ CallSetBreakpoint(r, Str(<<"0", "x", "1">>))
    \/ CallStep(r)
    \/ CallReadVar(r, TRUE)

\* a connection to the debug server is opened
ConnectionOpened == \E r \in Reqs : dpc[r] # "gdb_wait" /\ dpc'[r] = "gdb_wait"

\* C22 (as stated): setBreakpoint, step and readVar called while the st-util
\* slot is not Running fail with the not-running error and open no
\* connection; a connection is opened only while the slot is Running
C22_NotRunningError ==
  [][/\ (DebugCommandCalled /\ Stopped("stlink"))
          => dlast'.kind = "NotRunning" /\ ~ConnectionOpened
     /\ ConnectionOpened => ~Stopped("stlink")]_vars

\* C22 (amended): setBreakpoint, step and readVar called while the st-util
\* slot is not Running fail and open no connection; the failure is the
\* not-running error when the arguments pass the argument checks, and the
\* argument error otherwise; a connection is opened only while the slot is
\* Running
C22_FailsUnlessRunning ==
  [][/\ (DebugCommandCalled /\ Stopped("stlink"))
          => /\ ~ConnectionOpened
             /\ UNCHANGED <<proc, child, dpc, dreq>>
             /\ dlast'.kind \in {"NotRunning", "RequiresArgument",
                                 "InvalidArgument"}
     /\ (ValidDebugCommandCalled /\ Stopped("stlink"))
          => dlast'.kind = "NotRunning"
     /\ ConnectionOpened => ~Stopped("stlink")]_vars

C22_Witness ==
  /\ Stopped("stlink")
  /\ dlast = DebugOutcome("setBreakpoint", "NotRunning")
  /\ \A r \in Reqs : dpc[r] # "gdb_wait"

\* C23: every debug-channel command that opened its connection settles, and
\* settles once: on the end or the timeout event, whichever comes first, it
\* returns the text of the chunks received so far; on the error event it
\* fails; nothing else ends it
C23_CommandSettles ==
  /\ [][\A r \in Reqs :
          (dpc[r] = "gdb_wait" /\ dpc'[r] # "gdb_wait")
            => /\ dpc'[r] = "idle"
               /\ \/ /\ GdbEnd(r) \/ GdbTimeout(r)
                     /\ dlast' = DebugOutput(dreq[r].op, dreq[r].chunks)
                  \/ /\ GdbError(r)
                     /\ dlast' = DebugOutcome(dreq[r].op, "SocketError")]_vars
  /\ [][GdbLate => UNCHANGED <<dpc, dreq, dlast>>]_vars
  /\ \A r \in Reqs : (dpc[r] = "gdb_wait") ~> (dpc[r] # "gdb_wait")

C23_Witness ==
  /\ dlast.kind = "Output" /\ dlast.text = MaxChunks
  /\ dlast.op \in {"setBreakpoint", "step", "readVar"}

\* the process has exited through the SIGINT handler
HasExited == shutdown.state = "exited"

\* C29: on SIGINT the handler calls closePort before anything else; the
\* process exits only in the step in which the closePort of a handler
\* returned or threw; it exits in that step in both cases; and a handler
\* whose closePort waits for the callback of close leads to the exit unless
\* an uncaught exception ends the process first
C29_CloseThenExit ==
  /\ [][/\ (\E r \in Reqs : Sigint(r))
             => \/ HasExited' /\ ~mustClose /\ Destroyed'
                \/ /\ ~HasExited' /\ mustClose
                   /\ \E r \in shutdown'.slots \ shutdown.slots :
                        /\ pc'[r] = "close_wait"
                        /\ portState'[reqPort'[r]] = "closing"
        /\ (HasExited' /\ ~HasExited)
             => \/ \E r \in Reqs : Sigint(r) /\ ~mustClose
                \/ \E r \in shutdown.slots : CloseDone(r) \/ CloseFail(r)
        /\ \A r \in shutdown.slots :
             (pc[r] = "close_wait" /\ pc'[r] # "close_wait") => HasExited'
       ]_vars
  /\ (shutdown.state = "closing") ~> (HasExited \/ crashed)

\* the exit after a closePort of the handler that failed
C29_Witness ==
  /\ HasExited
  /\ activePort # NoPort /\ portState[activePort] = "open"

\* writeRegister is called
WriteRegisterCalled ==
  /\ dlast'.op = "writeRegister"
  /\ \E addr \in DebugAddrs, value \in DebugAddrs : CallWriteRegister(addr, value)

\* C24 (as stated): every call of writeRegister fails with the
\* UnsupportedOperation error, whatever addr and value are and whether or not
\* a debug server runs
C24_AlwaysUnsupported ==
  [][(dlast'.op = "writeRegister" /\ dlast' # dlast /\ WriteRegisterCalled)
       => dlast'.kind = "UnsupportedOperation"]_vars

\* C24 (amended): every call of writeRegister fails, whether or not a debug
\* server runs, and changes nothing else: with the UnsupportedOperation error
\* when addr and value are both well-formed, with the InvalidArgument error
\* when addr or value is missing or is not a number
C24_AlwaysFails ==
  [][(dlast'.op = "writeRegister" /\ dlast' # dlast)
       => /\ WriteRegisterCalled
          /\ dlast'.kind \in {"UnsupportedOperation", "InvalidArgument"}
          /\ UNCHANGED <<proc, gdbPort, child, dpc, dreq>>
          /\ dlast'.kind # "UnsupportedOperation"
               => ~CallWriteRegister(Str(<<"0", "x", "1">>),
                                     Str(<<"0", "x", "1">>))
          /\ dlast'.kind # "InvalidArgument"
               => \A a \in DebugAddrs, m \in {Missing, Str(<<"z">>)} :
                    ~CallWriteRegister(a, m) /\ ~CallWriteRegister(m, a)]_vars

\* writeRegister failed as unsupported while the st-util server runs
C24_Witness ==
  /\ dlast = DebugOutcome("writeRegister", "UnsupportedOperation")
  /\ ~Stopped("stlink") /\ Alive("stlink") # {}

\* the tool of the last call ran and exited with a status other than 0
ToolExitedNonZero ==
  /\ tlast.out.runs # <<>>
  /\ tlast.out.runs[Len(tlast.out.runs)] \in {"tool", "shell"}
  /\ tlast.out.exit \notin {0, ShellNotFound}

\* C25: a one-shot call (flashFirmware, resetDevice, compile, gitCommit,
\* gitDiff) whose tool ran and exited with a status other than 0 does not
\* throw: it returns a result with ok: false
C25_NonZeroReturns ==
  (/\ tlast.op \in {"flashFirmware", "resetDevice", "compile", "gitCommit",
                    "gitDiff"}
   /\ ToolExitedNonZero)
    => tlast.out.kind = "Result" /\ tlast.out.ok = "false"

\* C26: compile with the tool make fails with the ToolNotFound error when
\* make is absent, and returns no result
C26_MakeAbsent ==
  (tlast.op = "compile" /\ tlast.backend = "make" /\ ~tlast.env.found)
    => tlast.out.kind = "ToolNotFound"

\* the last call probed the bare default name of a tool
BareNameProbed ==
  /\ tlast.op = "probe" /\ tlast.env.override = "unset"
  /\ tlast.backend \notin ExeNames

\* C27: the probe of a bare name reports the tool available whenever the
\* probe process could be spawned and exited, whatever its exit status; only
\* a spawn failure yields ToolNotFound
C27_ProbeAnyExit ==
  BareNameProbed
    => /\ tlast.env.found => tlast.out.kind = "Available"
       /\ ~tlast.env.found => tlast.out.kind = "ToolNotFound"

\* the default name of the probed tool is executable by itself
DefaultNameWorks ==
  isExecutable(resolveTool(tlast.backend, [tlast.env EXCEPT !.override = "unset"]),
               tlast.env)

\* C28: resolution tries the override, then the default name: an override
\* that is not an existing file falls back to the default name, and
\* ToolNotFound is raised only when both fail
C28_OverrideThenName ==
  tlast.op = "probe"
    => (tlast.out.kind = "ToolNotFound"
          <=> tlast.env.override # "file" /\ ~DefaultNameWorks)

\* a string made of decimal digits only, or of 0x and hex digits only
WellFormed(s) ==
  \/ s # <<>> /\ \A i \in 1..Len(s) : isDigit(s[i], 10)
  \/ /\ startsWith0x(s) /\ Len(s) > 2
     /\ \A i \in 3..Len(s) : isDigit(s[i], 16)

\* C30: a malformed address passed to readRegister or flashFirmware is
\* rejected as an invalid argument and no external process is run
C30_MalformedRejected ==
  (/\ tlast.op \in {"readRegister", "flashFirmware"}
   /\ tlast.arg.type = "string" /\ ~WellFormed(tlast.arg.s))
    => /\ tlast.out.kind \in {"InvalidArgument", "InvalidPath"}
       /\ tlast.out.runs = <<>>

\* C31: a read on an open session whose receive buffer is not empty returns
\* at once, without suspending, the first min(maxBytes, length) bytes of the
\* buffer and leaves the rest in the buffer, in order; and no read returns
\* more than maxBytes bytes
C31_ReadPrefix ==
  [][/\ \A r \in Reqs, mb \in MaxBytesArgs, t \in TimeoutArgs :
          (SessionOpen /\ rxBuffer # <<>> /\ CallRead(r, mb, t))
            => /\ last'.op = "read" /\ last'.kind = "ok"
               /\ Len(last'.data) = Min(mb, Len(rxBuffer))
               /\ last'.data \o rxBuffer' = rxBuffer
               /\ UNCHANGED <<pc, timer, listeners>>
     /\ (last'.op = "read" /\ last'.kind = "ok" /\ last'.data # <<>>)
          => Len(last'.data) <= last'.maxBytes]_vars

\* C31 witness: a read with maxBytes 1 returned the first byte and the second
\* is still in the buffer
C31_Witness ==
  /\ last.op = "read" /\ last.kind = "ok" /\ last.maxBytes = 1
  /\ Len(last.data) = 1 /\ SessionOpen
  /\ rxBuffer # <<>> /\ rxBuffer[1] = last.data[1] + 1

\* C32: a read suspended on its timeout does not block the other requests and
\* still completes after them: a closePort served while the read is pending
\* (the last result is closePort's and the read is still suspended) never
\* leaves the read suspended in a process that has terminated
C32_PendingReadCompletes ==
  ~(/\ last.op = "closePort"
    /\ \E r \in Reqs : pc[r] = "read_wait"
    /\ crashed)

\* what a failed openPort must leave: the session as it was, and nothing to
\* stop the next openPort when there is no session
NoSessionCreated ==
  /\ UNCHANGED <<sessionVars, listeners>>
  /\ activePort = NoPort => ~AlreadyOpen'

\* C35: an openPort that fails creates no session. A rejected name constructs
\* no channel; a failed port.open (access denied, port not found, any other
\* error) leaves the channel object without event handlers or listeners and
\* unused. In both cases the active channel, its name and the receive buffer
\* are unchanged, the slot is free, and when there is no session the next
\* openPort passes the AlreadyOpen check
C35_FailedOpenNoSession ==
  [][/\ \A r \in Reqs, e \in OpenErrors :
          OpenFail(r, e)
            => /\ last'.op = "openPort" /\ last'.kind = e
               /\ portState'[reqPort[r]] = "unused"
               /\ ~portHandlers'[reqPort[r]]
               /\ listeners'[reqPort[r]] = <<>>
               /\ pc'[r] = "idle"
               /\ NoSessionCreated
     /\ \A r \in Reqs, name \in Names :
          (~AlreadyOpen /\ ~normalizeComName(name) /\ CallOpenPort(r, name))
            => /\ last'.op = "openPort" /\ last'.kind = "InvalidName"
               /\ UNCHANGED <<portVars, pc>>
               /\ NoSessionCreated]_vars

\* C35 witness: an openPort failed in port.open and there is no session and
\* no channel object
C35_Witness ==
  /\ last.op = "openPort" /\ last.kind = "AccessDenied"
  /\ activePort = NoPort
  /\ \A p \in Ports : portState[p] = "unused" /\ ~portHandlers[p]
  /\ \A r \in Reqs : pc[r] = "idle"

\* the reads suspended with a listener on channel p
Waiting(p) ==
  {r \in Reqs : pc[r] = "read_wait" /\
                \E i \in 1..Len(listeners[p]) : listeners[p][i].req = r}

\* C36: when several reads are suspended on the same channel, a data event
\* of that channel hands every byte to exactly one of them: the bytes the
\* reads returned, followed by the buffer, are after the event what they were
\* before it followed by the chunk; at least one read returns, every read
\* that returns got at least one byte; and a read that got none is still
\* suspended, with its listener and its timer, the buffer being empty
C36_BytesToOneRead ==
  [][\A p \in Ports, n \in ChunkLens :
       (Cardinality(Waiting(p)) >= 2 /\ Data(p, n))
         => /\ ~crashed'
            /\ consumed' \o rxBuffer' = (consumed \o rxBuffer) \o Chunk(n)
            /\ Len(consumed') - Len(consumed)
                 >= Cardinality(Waiting(p) \ Waiting(p)')
            /\ Waiting(p) \ Waiting(p)' # {}
            /\ \A r \in Waiting(p) :
                 \/ pc'[r] = "idle" /\ ~timer'[r]
                 \/ r \in Waiting(p)' /\ timer'[r] /\ rxBuffer' = <<>>]_vars

\* the bytes of a sequence
Bytes(s) == {s[i] : i \in 1..Len(s)}

\* C37: no byte received during one session is returned by a read of a later
\* session: every byte a read returned, and every byte an open session holds
\* in its buffer, arrived after the openPort that opened the session
C37_NoStaleBytes ==
  /\ (last.op = "read" /\ last.kind = "ok") => Bytes(last.data) \subseteq Bytes(arrived)
  /\ SessionOpen => Bytes(rxBuffer) \subseteq Bytes(arrived)

\* C37 witness: the first byte arrived in a session that is over, the session
\* was opened again and a read returned the one byte that arrived since
C37_Witness ==
  /\ SessionOpen
  /\ \A p \in Ports : p # activePort => portState[p] = "unused"
  /\ last.op = "read" /\ last.kind = "ok" /\ last.data = <<2>>
  /\ arrived = <<2>>

\* C34: in a session whose calls are made one after the other, after a
\* successful openPort a read with a timeout returns a result when its wait
\* ends, and closePort returns a result and leaves the session closed, so
\* that the next openPort passes the AlreadyOpen check
C34_SequentialSession ==
  [][\A r \in Reqs :
       /\ (pc[r] = "read_wait" /\ timer[r] /\ ~timer'[r])
            => pc'[r] = "idle" /\ last'.op = "read" /\ last'.kind = "ok"
       /\ (pc[r] = "close_wait" /\ pc'[r] # "close_wait")
            => /\ last'.op = "closePort" /\ last'.kind = "ok"
               /\ Destroyed' /\ ~AlreadyOpen']_vars

\* a step of backend b: its startDebug or stopDebug is called, its startDebug
\* goes on after isExecutable (and may fail), or one of its children is
\* ready, fails to spawn, exits or gets the SIGKILL of the grace timer
StepOf(b) ==
  \/ \E r \in Reqs, port \in StartPorts[b] : CallStartDebug(r, b, port)
  \/ StopDebugCalled(b)
  \/ \E r \in Reqs, found \in BOOLEAN, ok \in BOOLEAN :
       dreq[r].backend = b /\ StartSpawn(r, found, ok)
  \/ \E c \in Children :
       /\ child[c].backend = b
       /\ Ready(c) \/ SpawnError(c) \/ Exit(c) \/ GraceTimer(c)

\* the slot, the recorded port and the child processes of backend b are what
\* they were: no process of b is changed or appears; a ChildProcess object
\* that has exited may cease to exist
Untouched(b) ==
  /\ proc'[b] = proc[b] /\ gdbPort'[b] = gdbPort[b]
  /\ \A c \in Children :
       (child[c].backend = b /\ child[c].state # "exited")
         \/ child'[c].backend = b
       => child'[c] = child[c]

\* C33: the three backend slots are independent: a step of one backend (its
\* startDebug, stopDebug, a start failure, a child exit) changes neither the
\* slot nor the recorded port nor a child process of another backend
C33_SlotsIndependent ==
  [][(proc' # proc \/ gdbPort' # gdbPort \/ child' # child)
       => \A b \in Backends :
            StepOf(b) => \A o \in Backends \ {b} : Untouched(o)]_vars

\* C33 witness: st-util was started on a port of its own and runs, and a
\* later start of OpenOCD has spawned its child and set its port
C33_Witness ==
  /\ proc["stlink"] # NoChild /\ gdbPort["stlink"] = OtherGdbPort
  /\ child[proc["stlink"]].state = "alive"
  /\ child[proc["stlink"]].port = OtherGdbPort
  /\ gdbPort["openocd"] = DefaultGdbPort["openocd"]
  /\ \E c \in Children : child[c].backend = "openocd" /\ child[c].listening

\* C38: whenever a slot is occupied, the recorded port of the backend is the
\* port the process in the slot was started with
C38_PortOfSlot ==
  \A b \in Backends : proc[b] # NoChild => gdbPort[b] = child[proc[b]].port

====
